---- MODULE Spec2Model ----
(***************************************************************************)
(* Model of spit (src/main.rs): a screenshot-to-clipboard utility.         *)
(*                                                                         *)
(* One user invocation is process 1.  On Linux a no-argument invocation    *)
(* spawns a detached copy of itself.  Every process runs main() -> run():  *)
(* Clipboard::new(), then the match on the first argument, then one of     *)
(* help / save / screenshot / unknown / spawn.  The platform facilities    *)
(* (clipboard, screen enumeration and capture, PNG writer, process spawn)  *)
(* are black boxes whose outcome is chosen nondeterministically at the     *)
(* call; what main.rs does with each outcome (`?`, indexing, expect) is    *)
(* modelled as written.                                                    *)
(***************************************************************************)
EXTENDS Integers, Sequences, FiniteSets, TLC

VARIABLES linux, screens, clip, procs, files

vars == <<linux, screens, clip, procs, files>>

(* ------------------------------ bounds -------------------------------- *)
MaxArgs == 2
MaxScreens == 2
MaxDim == 2
MaxProcs == 3

(* ----------------------------- constants ------------------------------ *)
SELF_IS_DAEMONIZED == "__self_is_daemonized"

EXIT_SUCCESS == 0

EXIT_FAILURE == 1

EXIT_PANIC == 101

RGBA_CHANNELS == 4

Tokens == {"help", "save", SELF_IS_DAEMONIZED, "bogus"}

RECURSIVE SeqsUpTo(_, _)
SeqsUpTo(S, n) ==
  IF n = 0 THEN {<<>>}
  ELSE LET shorter == SeqsUpTo(S, n - 1)
       IN  shorter \cup {Append(s, x) : s \in {t \in shorter : Len(t) = n - 1}, x \in S}

ArgLists == SeqsUpTo(Tokens, MaxArgs)

(* ------------------------------ images -------------------------------- *)
NoImage == [present |-> FALSE, width |-> 0, height |-> 0, len |-> 0]

Image(w, h, n) == [present |-> TRUE, width |-> w, height |-> h, len |-> n]

\* what another application may have left on the clipboard: nothing usable
\* as an image, or an image whose byte count is short, exact or long
ClipContents ==
  {NoImage} \cup
  {Image(w, h, w * h * RGBA_CHANNELS + d) : w \in 1..MaxDim, h \in 1..MaxDim, d \in {-1, 0, 1}}

\* image::RgbaImage::from_raw(width, height, bytes): None unless the
\* container is big enough for width * height * 4 bytes; a longer container
\* is accepted as it is
FromRaw(data) ==
  IF data.len >= data.width * data.height * RGBA_CHANNELS THEN data ELSE NoImage

(* ------------------------------ messages ------------------------------ *)
\* text is a sequence of chunks; the chunk "<exe>" is env::current_exe()
usage ==
  << "If no subcommand is provided, it will take a screenshot of the current screen and save it to the system clipboard. Usage: ",
     "<exe>", " [SUBCOMMAND] Subcommands: help - Show this message. save - Try to save a screenshot from the clipboard as a PNG file." >>

NoError == [kind |-> "none", text |-> <<>>]

Error(k, t) == [kind |-> k, text |-> t]

UnknownSubcommandError(subcmd) ==
  Error("DispatchError", <<"Unknown subcommand ", "\"", subcmd, "\"">> \o usage)

ErrorLine(e) == [stream |-> "stderr", text |-> <<"ERROR: ">> \o e.text]

PanicLine(msg) == [stream |-> "stderr", text |-> <<"thread 'main' panicked: ", msg>>]

(* ------------------------------ processes ----------------------------- *)
NewProc(a, io, dir) ==
  [args |-> a, stdio |-> io, cwd |-> dir, pc |-> "start", exit |-> -1,
   err |-> NoError, log |-> <<>>, img |-> NoImage, released |-> FALSE, out |-> <<>>]

\* a write to stdout/stderr reaches the user only if the stream is inherited
Emit(p, line) == IF p.stdio = "inherit" THEN Append(p.out, line) ELSE p.out

Logged(p, o, good) == Append(p.log, [op |-> o, ok |-> good])

\* main(): Err(e) => eprintln!("ERROR: {e}"); ExitCode::FAILURE
Fail(p, e) ==
  [p EXCEPT !.pc = "done", !.exit = EXIT_FAILURE, !.err = e, !.out = Emit(p, ErrorLine(e))]

\* main(): Ok(()) => ExitCode::SUCCESS
Succeed(p) == [p EXCEPT !.pc = "done", !.exit = EXIT_SUCCESS]

\* a Rust panic unwinds out of main: message on stderr, exit status 101
Panic(p, msg) ==
  [p EXCEPT !.pc = "done", !.exit = EXIT_PANIC, !.out = Emit(p, PanicLine(msg))]

\* run() taking the synchronous screenshot branch on every platform
RouteNoDaemon(args, isLinux) ==
  IF Len(args) >= 1
  THEN CASE args[1] = "help" -> "help"
         [] args[1] = "save" -> "get_image"
         [] args[1] = SELF_IS_DAEMONIZED /\ isLinux -> "capture"
         [] OTHER -> "unknown"
  ELSE "capture"

\* the match in run(): which branch a process takes once it holds a clipboard
Route(args, isLinux) ==
  IF Len(args) >= 1
  THEN CASE args[1] = "help" -> "help"
         [] args[1] = "save" -> "get_image"
         [] args[1] = SELF_IS_DAEMONIZED /\ isLinux -> "capture"
         [] OTHER -> "unknown"
  ELSE IF isLinux THEN "spawn" ELSE "capture"

\* the copy started without the marker
ChildArgsNoMarker == <<>>

\* Command::new(current_exe).arg(SELF_IS_DAEMONIZED)
ChildArgs == <<SELF_IS_DAEMONIZED>>

\* the copy started on the streams of its parent
ChildStdioInherited == "inherit"

\* .stdin(Stdio::null()).stdout(Stdio::null()).stderr(Stdio::null())
ChildStdio == "null"

\* .current_dir("/")
ChildCwd == "/"

\* set_image on every platform
PublishNeverBlocks(isLinux) == FALSE

\* cfg!(target_os = "linux") => clipboard.set().wait().image(..)
PublishBlocks(isLinux) == isLinux

(* ------------------------------- Init --------------------------------- *)
Init ==
  /\ linux \in BOOLEAN
  /\ screens \in 0..MaxScreens
  /\ clip \in ClipContents
  /\ \E a \in ArgLists : procs = <<NewProc(a, "inherit", "cwd")>>
  /\ files = <<>>

(* ------------------------------ actions ------------------------------- *)
\* run(): let mut clipboard = Clipboard::new()?;  then the dispatch
ClipboardNew(i) ==
  /\ procs[i].pc = "start"
  /\ \E ok \in BOOLEAN :
       LET p == [procs[i] EXCEPT !.log = Logged(procs[i], "new", ok)]
       IN  procs' = [procs EXCEPT ![i] =
             IF ok THEN [p EXCEPT !.pc = Route(p.args, linux)]
             ELSE Fail(p, Error("ClipboardError", <<"clipboard init">>))]
  /\ UNCHANGED <<linux, screens, clip, files>>

\* "help" => return Ok(println!("{}", usage())); usage() panics when
\* env::current_exe() fails (expect)
Help(i) ==
  /\ procs[i].pc = "help"
  /\ \E exe \in BOOLEAN :
       procs' = [procs EXCEPT ![i] =
         IF exe
         THEN Succeed([procs[i] EXCEPT !.out = Emit(procs[i], [stream |-> "stdout", text |-> usage])])
         ELSE Panic(procs[i], "name of the current program")]
  /\ UNCHANGED <<linux, screens, clip, files>>

\* _ => Err(format!(r#"Unknown subcommand "{subcmd}"{usage}"#)), with the
\* same expect inside usage()
UnknownSubcommand(i) ==
  /\ procs[i].pc = "unknown"
  /\ \E exe \in BOOLEAN :
       procs' = [procs EXCEPT ![i] =
         IF exe
         THEN Fail(procs[i], UnknownSubcommandError(procs[i].args[1]))
         ELSE Panic(procs[i], "name of the current program")]
  /\ UNCHANGED <<linux, screens, clip, files>>

\* get_image_from_clipboard with a get_image() error swallowed
GotImageLenient(p, got, data) ==
  IF got /\ ~FromRaw(data).present THEN Panic(p, "valid image size")
  ELSE [p EXCEPT !.pc = "save_png", !.img = IF got THEN FromRaw(data) ELSE Image(1, 1, RGBA_CHANNELS)]

\* get_image_from_clipboard: clipboard.get_image()?, then
\* RgbaImage::from_raw(..).expect("valid image size"), then Ok(image)
GotImage(p, got, data) ==
  IF ~got THEN Fail(p, Error("ClipboardError", <<"clipboard get_image">>))
  ELSE IF ~FromRaw(data).present THEN Panic(p, "valid image size")
  ELSE [p EXCEPT !.pc = "save_png", !.img = FromRaw(data)]

\* save_image_from_clipboard: let image = get_image_from_clipboard(clipboard)?
GetImage(i) ==
  /\ procs[i].pc = "get_image"
  /\ \E ok \in BOOLEAN :
       LET got == ok /\ clip.present
           p   == [procs[i] EXCEPT !.log = Logged(procs[i], "get", got)]
       IN  procs' = [procs EXCEPT ![i] = GotImage(p, got, clip)]
  /\ UNCHANGED <<linux, screens, clip, files>>

\* save_image_cwd_as_png, then save_image_from_clipboard and run return Ok
SavePng(i) ==
  /\ procs[i].pc = "save_png"
  /\ \E ok \in BOOLEAN :
       LET p == [procs[i] EXCEPT !.log = Logged(procs[i], "save", ok)]
       IN  IF ok
           THEN /\ files' = Append(files, p.img)
                /\ procs' = [procs EXCEPT ![i] =
                     Succeed([p EXCEPT !.out = Emit(p, [stream |-> "stdout",
                        text |-> <<"Image from clipboard is saved as ", "\"", "<now>", ".png", "\"">>])])]
           ELSE /\ files' = files
                /\ procs' = [procs EXCEPT ![i] = Fail(p, Error("IoError", <<"png save">>))]
  /\ UNCHANGED <<linux, screens, clip>>

\* capture_screenshot: Screen::all()?[0], then screen.capture()?
CaptureScreenshot(i) ==
  /\ procs[i].pc = "capture"
  /\ \E outcome \in {"enum_err", "capture_err", "ok"}, w \in 1..MaxDim, h \in 1..MaxDim :
       LET good == outcome = "ok" /\ screens > 0
           p    == [procs[i] EXCEPT !.log = Logged(procs[i], "capture", good)]
       IN  procs' = [procs EXCEPT ![i] =
             IF outcome = "enum_err" THEN Fail(p, Error("CaptureError", <<"screen enumeration">>))
             ELSE IF screens = 0 THEN Panic(p, "index out of bounds")
             ELSE IF outcome = "capture_err" THEN Fail(p, Error("CaptureError", <<"screen capture">>))
             ELSE [p EXCEPT !.pc = "publish", !.img = Image(w, h, w * h * RGBA_CHANNELS)]]
  /\ UNCHANGED <<linux, screens, clip, files>>

\* screenshot_into_clipboard after the capture: set the image; on Linux
\* set().wait() keeps the call from returning while this process owns the
\* clipboard
Publish(i) ==
  /\ procs[i].pc = "publish"
  /\ \E ok \in BOOLEAN :
       LET p == [procs[i] EXCEPT !.log = Logged(procs[i], "set", ok)]
       IN  IF ok
           THEN /\ clip' = p.img
                /\ procs' = [procs EXCEPT ![i] =
                     IF PublishBlocks(linux) THEN [p EXCEPT !.pc = "offering"] ELSE Succeed(p)]
           ELSE /\ clip' = clip
                /\ procs' = [procs EXCEPT ![i] = Fail(p, Error("ClipboardError", <<"clipboard set_image">>))]
  /\ UNCHANGED <<linux, screens, files>>

\* environment: another application reads the offered image or takes the
\* clipboard over, which ends the ownership of the offering process
ClipboardTaken(i) ==
  /\ procs[i].pc = "offering"
  /\ ~procs[i].released
  /\ \E how \in {"read", "replaced"} :
       clip' = IF how = "read" THEN clip ELSE NoImage
  /\ procs' = [procs EXCEPT ![i].released = TRUE]
  /\ UNCHANGED <<linux, screens, files>>

\* the blocked set().wait().image(..) returns Ok, and so do run and main
PublishReturn(i) ==
  /\ procs[i].pc = "offering"
  /\ procs[i].released
  /\ procs' = [procs EXCEPT ![i] = Succeed(procs[i])]
  /\ UNCHANGED <<linux, screens, clip, files>>

\* environment: the blocked publisher is killed from outside
Kill(i) ==
  /\ procs[i].pc = "offering"
  /\ ~procs[i].released
  /\ procs' = [procs EXCEPT ![i].pc = "killed"]
  /\ UNCHANGED <<linux, screens, clip, files>>

\* run(), Linux, no argument: Command::new(env::current_exe()?)...spawn()?; Ok(())
Spawn(i) ==
  /\ procs[i].pc = "spawn"
  /\ Len(procs) < MaxProcs
  /\ \E outcome \in {"exe_err", "spawn_err", "ok"} :
       LET p == [procs[i] EXCEPT !.log = Logged(procs[i], "spawn", outcome = "ok")]
       IN  procs' =
             IF outcome = "ok"
             THEN Append([procs EXCEPT ![i] = Succeed(p)], NewProc(ChildArgs, ChildStdio, ChildCwd))
             ELSE [procs EXCEPT ![i] = Fail(p, Error("SpawnError", <<outcome>>))]
  /\ UNCHANGED <<linux, screens, clip, files>>

ProcStep(i) ==
  \/ ClipboardNew(i)
  \/ Help(i)
  \/ UnknownSubcommand(i)
  \/ GetImage(i)
  \/ SavePng(i)
  \/ CaptureScreenshot(i)
  \/ Publish(i)
  \/ PublishReturn(i)
  \/ Spawn(i)

ProcIds == 1..Len(procs)

Next ==
  \/ \E i \in ProcIds : ClipboardNew(i)
  \/ \E i \in ProcIds : Help(i)
  \/ \E i \in ProcIds : UnknownSubcommand(i)
  \/ \E i \in ProcIds : GetImage(i)
  \/ \E i \in ProcIds : SavePng(i)
  \/ \E i \in ProcIds : CaptureScreenshot(i)
  \/ \E i \in ProcIds : Publish(i)
  \/ \E i \in ProcIds : PublishReturn(i)
  \/ \E i \in ProcIds : Spawn(i)
  \/ \E i \in ProcIds : ClipboardTaken(i)
  \/ \E i \in ProcIds : Kill(i)

Spec == Init /\ [][Next]_vars

\* every process that can take a step is eventually scheduled by the OS;
\* nothing is assumed about other applications or about kills
FairSpec == Spec /\ \A i \in 1..MaxProcs : WF_vars(i <= Len(procs) /\ ProcStep(i))

(* ------------------------- helpers of the claims ---------------------- *)
HasArg(p) == Len(p.args) >= 1

Ops(p) == {p.log[k].op : k \in 1..Len(p.log)}

Did(p, o) == \E k \in 1..Len(p.log) : p.log[k].op = o /\ p.log[k].ok

Ended(p) == p.pc = "done"

ContainsQuoted(text, tok) ==
  \E k \in 1..(Len(text) - 2) : text[k] = "\"" /\ text[k + 1] = tok /\ text[k + 2] = "\""

ContainsUsage(text) ==
  \E k \in 0..(Len(text) - Len(usage)) : SubSeq(text, k + 1, k + Len(usage)) = usage

Recognized == {"help", "save"} \cup (IF linux THEN {SELF_IS_DAEMONIZED} ELSE {})

Malformed(data) == data.present /\ data.len # data.width * data.height * RGBA_CHANNELS

\* the ordinary failure state: exit code 1 and "ERROR: <message>" on stderr
OrdinaryFailure(p) ==
  /\ Ended(p)
  /\ p.exit = EXIT_FAILURE
  /\ p.err # NoError
  /\ Len(p.out) = 1
  /\ p.out[1] = ErrorLine(p.err)

(* ------------------------------- claims ------------------------------- *)
\* C1: a run whose first argument is "help" ends with exit code 0 and
\* performs no clipboard operation at all (no acquisition of the handle, no
\* get, no set), no capture and no spawn, also when acquiring the handle
\* would fail.
C1_HelpTouchesNothing ==
  \A i \in ProcIds :
    (HasArg(procs[i]) /\ procs[i].args[1] = "help") =>
      /\ Ops(procs[i]) \cap {"new", "get", "set", "capture", "spawn"} = {}
      /\ Ended(procs[i]) => procs[i].exit = EXIT_SUCCESS
      /\ Len(procs) = 1

\* C2: a no-argument run on a platform other than Linux captures and then
\* publishes in the invoked process, in that order, before it exits with
\* success, and spawns no child; on Linux the invoked process spawns exactly
\* one detached child whose sole argument is the marker, itself captures and
\* publishes nothing, and is at its exit as soon as the child exists, whatever
\* the child or a clipboard reader does.
C2_NoArgumentDispatch ==
  (~HasArg(procs[1])) =>
    LET p == procs[1] IN
    IF ~linux
    THEN /\ Len(procs) = 1
         /\ "spawn" \notin Ops(p)
         /\ \A k \in 1..Len(p.log) :
              p.log[k].op = "set" =>
                \E j \in 1..(k - 1) : p.log[j].op = "capture" /\ p.log[j].ok
         /\ (Ended(p) /\ p.exit = EXIT_SUCCESS) => (Did(p, "capture") /\ Did(p, "set"))
         /\ Did(p, "set") => (Ended(p) /\ p.exit = EXIT_SUCCESS)
    ELSE /\ Ops(p) \cap {"capture", "set", "get", "save"} = {}
         /\ Len(procs) <= 2
         /\ Did(p, "spawn") <=> Len(procs) = 2
         /\ (Ended(p) /\ p.exit = EXIT_SUCCESS) <=> Len(procs) = 2
         /\ \A i \in 2..Len(procs) :
              /\ procs[i].args = <<SELF_IS_DAEMONIZED>>
              /\ procs[i].stdio = "null"
              /\ procs[i].cwd = "/"

\* the Linux parent has exited with success while its child is still blocked
\* in publish
C2_Witness ==
  /\ linux
  /\ ~HasArg(procs[1])
  /\ Len(procs) = 2
  /\ Ended(procs[1]) /\ procs[1].exit = EXIT_SUCCESS
  /\ procs[2].pc = "offering" /\ ~procs[2].released

\* C3: a run whose first argument is not a recognized token ends with exit
\* code 1 and a diagnostic that contains the token in double quotes and the
\* usage text; it captures nothing, reads and writes no clipboard, creates no
\* file and spawns no child.
C3_UnknownTokenDiagnosed ==
  \A i \in ProcIds :
    (HasArg(procs[i]) /\ procs[i].args[1] \notin Recognized) =>
      /\ Ops(procs[i]) \cap {"capture", "get", "set", "save", "spawn"} = {}
      /\ files = <<>>
      /\ Len(procs) = 1
      /\ Ended(procs[i]) =>
           /\ procs[i].exit = EXIT_FAILURE
           /\ Len(procs[i].out) = 1
           /\ procs[i].out[1].stream = "stderr"
           /\ ContainsQuoted(procs[i].out[1].text, procs[i].args[1])
           /\ ContainsUsage(procs[i].out[1].text)

\* C4: a "save" run while the clipboard holds no image ends with a clipboard
\* error and exit code 1 and creates no file; the file is written only after
\* a clipboard read that succeeded.
C4_SaveEmptyClipboard ==
  \A i \in ProcIds :
    (HasArg(procs[i]) /\ procs[i].args[1] = "save") =>
      /\ \A k \in 1..Len(procs[i].log) :
           procs[i].log[k].op = "save" =>
             \E j \in 1..(k - 1) : procs[i].log[j].op = "get" /\ procs[i].log[j].ok
      /\ procs[i].pc = "save_png" => Did(procs[i], "get")
      /\ Len(files) > 0 => Did(procs[i], "get")
      /\ ~clip.present =>
           /\ ~Did(procs[i], "get")
           /\ procs[i].pc # "save_png"
           /\ files = <<>>
           /\ Ended(procs[i]) =>
                /\ OrdinaryFailure(procs[i])
                /\ procs[i].err.kind = "ClipboardError"

\* the read of an empty clipboard was attempted and has failed
C4_Witness ==
  /\ ~clip.present
  /\ HasArg(procs[1]) /\ procs[1].args[1] = "save"
  /\ \E k \in 1..Len(procs[1].log) : procs[1].log[k].op = "get" /\ ~procs[1].log[k].ok
  /\ OrdinaryFailure(procs[1])
  /\ files = <<>>

\* C5: when the clipboard holds an image whose byte count differs from
\* width * height * 4, the read of the "save" run fails with an error that
\* ends the run in the ordinary failure state (exit code 1, "ERROR:
\* <message>"); no truncated or padded image comes out of the read and no
\* file is created.
C5_MalformedImageRejected ==
  \A i \in ProcIds :
    (HasArg(procs[i]) /\ procs[i].args[1] = "save" /\ Malformed(clip)) =>
      /\ procs[i].pc # "save_png"
      /\ ~procs[i].img.present
      /\ files = <<>>
      /\ Ended(procs[i]) => OrdinaryFailure(procs[i])

\* C6: when a process is at the capture step and the platform enumerates no
\* screen, or the enumeration or the capture call fails, the run ends in the
\* ordinary failure state with a capture error and the clipboard is not
\* written.
C6_NoScreenIsCaptureError ==
  \A i \in ProcIds :
    ("capture" \in Ops(procs[i]) /\ ~Did(procs[i], "capture")) =>
      /\ OrdinaryFailure(procs[i])
      /\ procs[i].err.kind = "CaptureError"
      /\ "set" \notin Ops(procs[i])

\* C7: on Linux the exit status and the output of a no-argument parent
\* depend only on the spawn: exit code 0 and no diagnostic if it succeeded,
\* exit code 1 otherwise; nothing the child does afterwards changes them and
\* no output of the child reaches the user.
C7_ParentSeesOnlyTheSpawn ==
  /\ [](( linux /\ ~HasArg(procs[1]) ) =>
         /\ Ended(procs[1]) =>
              IF Did(procs[1], "spawn")
              THEN procs[1].exit = EXIT_SUCCESS /\ procs[1].out = <<>>
              ELSE OrdinaryFailure(procs[1])
         /\ Did(procs[1], "spawn") => Ended(procs[1])
         /\ \A i \in 2..Len(procs) : procs[i].out = <<>>)
  /\ [][( linux /\ ~HasArg(procs[1]) /\ Ended(procs[1]) ) => procs'[1] = procs[1]]_vars

\* the parent has exited with success and its child has failed
C7_Witness ==
  /\ linux
  /\ ~HasArg(procs[1])
  /\ Len(procs) = 2
  /\ procs[1].exit = EXIT_SUCCESS
  /\ Ended(procs[2]) /\ procs[2].exit = EXIT_FAILURE

\* C8: on Linux a process that has published does not return from publish,
\* and does not exit, before the clipboard was read or taken over, or the
\* process is killed; without such an event it stays blocked; once the
\* clipboard was read or taken over it terminates with exit code 0.  On the
\* other platforms publish returns once the clipboard has accepted the image.
C8_PublishBlocksUntilReleased ==
  /\ [](\A i \in ProcIds :
          /\ (linux /\ Did(procs[i], "set") /\ Ended(procs[i])) =>
               (procs[i].released /\ procs[i].exit = EXIT_SUCCESS)
          /\ (linux /\ Did(procs[i], "set") /\ ~procs[i].released) =>
               procs[i].pc \in {"offering", "killed"}
          /\ (~linux /\ Did(procs[i], "set")) =>
               (Ended(procs[i]) /\ procs[i].exit = EXIT_SUCCESS /\ ~procs[i].released))
  /\ [][\A i \in ProcIds :
          (procs[i].pc = "offering" /\ ~procs[i].released /\ ~procs'[i].released)
            => procs'[i].pc \in {"offering", "killed"}]_vars
  /\ \A i \in 1..MaxProcs :
       (i <= Len(procs) /\ procs[i].pc = "offering" /\ procs[i].released)
         ~> (i <= Len(procs) /\ Ended(procs[i]) /\ procs[i].exit = EXIT_SUCCESS)

\* a Linux publisher has returned after its image was read
C8_Witness ==
  \E i \in ProcIds :
    /\ linux
    /\ Did(procs[i], "set")
    /\ procs[i].released
    /\ Ended(procs[i]) /\ procs[i].exit = EXIT_SUCCESS

\* C9: the marker is honoured only on Linux: there a run whose first argument
\* is the marker captures and then publishes in that process; on every other
\* platform it is treated as any unrecognized token and ends with the
\* unknown-subcommand error and exit code 1, with no capture and no clipboard
\* write.
C9_MarkerOnlyOnLinux ==
  \A i \in ProcIds :
    (HasArg(procs[i]) /\ procs[i].args[1] = SELF_IS_DAEMONIZED) =>
      LET p == procs[i] IN
      IF linux
      THEN /\ p.pc # "unknown"
           /\ p.err.kind # "DispatchError"
           /\ "spawn" \notin Ops(p)
           /\ \A k \in 1..Len(p.log) :
                p.log[k].op = "set" =>
                  \E j \in 1..(k - 1) : p.log[j].op = "capture" /\ p.log[j].ok
           /\ (Ended(p) /\ p.exit = EXIT_SUCCESS) => (Did(p, "capture") /\ Did(p, "set"))
      ELSE /\ Ops(p) \cap {"capture", "set"} = {}
           /\ Ended(p) =>
                /\ OrdinaryFailure(p)
                /\ p.err = UnknownSubcommandError(SELF_IS_DAEMONIZED)

\* C10: a process started with an argument never spawns; one user invocation
\* creates at most two processes, and the screen is captured at most once
\* across them.
C10_NoCascade ==
  /\ \A i \in ProcIds : HasArg(procs[i]) => "spawn" \notin Ops(procs[i])
  /\ Len(procs) <= 2
  /\ Cardinality(UNION {{<<i, k>> : k \in {j \in 1..Len(procs[i].log) : procs[i].log[j].op = "capture"}} :
                           i \in ProcIds}) <= 1

\* the detached child has captured the screen and no third process exists
C10_Witness ==
  /\ Len(procs) = 2
  /\ Did(procs[2], "capture")
  /\ Did(procs[1], "spawn")

====
